---- MODULE Spec2Model ----
(***************************************************************************)
(* Story-to-scene pipeline: the story processor (StoryProcessorService in  *)
(* backend/src/services/processor.ts and its earlier per-segment variant), *)
(* the state store (FileStorageService.saveStoryData / loadStoryData) and  *)
(* the video generator's retry policy (GeminiVeoService).                  *)
(*                                                                         *)
(* One story record is modelled.  Every `await` of the source is a point   *)
(* where another operation on the same record may run, so each operation   *)
(* is cut into steps at its awaits that read or write the state store.     *)
(***************************************************************************)
EXTENDS Integers, Sequences, FiniteSets, TLC

\* ------------------------------------------------------------------ bounds
MaxSeg == 2          \* most segments / sections the analyzer returns
MaxRuns == 2         \* processStory invocations on the story
MaxRegens == 1       \* regenerateSegment invocations
MaxGenCalls == 2     \* StoryProcessorService.generateVideo invocations
MaxRetriesBound == 3 \* largest maxRetries tried
MaxPollRequests == 1 \* GET /:id/status requests
MaxDeletes == 1      \* DELETE /:id requests
MaxFileSize == 12    \* bytes of a stored video file
MaxAnswered == 13    \* segments in the list the text-analysis model answers
MaxStories == 2      \* story ids in the stories directory
MaxTime == 2         \* distinct uploadedAt instants
MaxVersion == 2      \* saves of one story record
MaxTextRuns == 4     \* runs of equal characters in a text given to cleanContent
MaxRunLength == 3    \* characters in one run
MaxNameLength == 2   \* characters in a file name or a section name
MaxScripts == 2      \* script files written
MaxScenes == 4       \* segments the viewer shows
MaxTimers == 2       \* intervals the viewer sets

VARIABLES
  store,      \* the persisted StoryData record (data/stories/<id>.json)
  seen,       \* every <<status, done, total, progress>> ever persisted
  story,      \* processStory: its local `story` object
  pc,         \* processStory: position
  ret,        \* updateStoryStatus: where processStory continues afterwards
  upd,        \* updateStoryStatus: the `updates` argument
  u,          \* updateStoryStatus: the record it loaded
  sections,   \* processStory: number of sections analyzeStory returned
  i,          \* processStory (per-segment variant): loop index
  inflight,   \* processStory: sections whose Promise.all task has not settled
  runs,       \* processStory invocations so far
  failSet,    \* segment ids whose generation inside processStory / regenerateSegment fails
  enableReferenceImages, \* config.features.enableReferenceImages
  rpc, rstory, rseg, regens,   \* regenerateSegment: position, local story, segment id, invocations
  vpc, vstory, vsec, gencalls, \* generateVideo(storyId, sectionId): the same
  maxRetries, script, attempt, ncalls, lastError, result, rtpc, \* generateVideoWithRetry
  waits,      \* generateVideoWithRetry: the waitTime of every backoff sleep so far
  pollCount,  \* generateVideo: its local pollCount
  opDone,     \* generateVideo: operation.done of the operation it holds
  queries,    \* getVideosOperation calls made on that operation
  operations, \* generateVideos calls made: operations started
  qpc, qstory, response, requests, \* GET /:id/status: position, loaded story, reply, requests
  deletes,    \* DELETE /:id requests so far
  media,      \* the artifact files of the story that exist on disk
  fileSize,   \* videos.ts: the size in bytes of the segment's video file
  videoExists, \* videos.ts: whether the file at segment.videoPath exists
  range,      \* videos.ts: the Range header of the last request
  streamed,   \* videos.ts: the answer to the last request
  request,    \* generateVideoWithRetry: the GeminiVeoRequest it was called with
  validation, \* validateRequest: what it returned for the request
  wordCount,  \* analyzeStory: textContent.split(/\s+/).length of the story
  files,      \* fileStorage: the <id>.json files of the stories directory
  listing,    \* fileStorage: what the last listStories returned
  loaded,     \* fileStorage: what the last loadStoryData returned
  parsed,     \* upload.ts: the text of the uploaded file, as runs of equal characters
  uploaded,   \* upload.ts: the answer to the upload and what it created
  cleaned,    \* fileParser: the results of successive cleanContent calls on the text
  apc,        \* generateAllVideos: position
  astory,     \* generateAllVideos: its local `story` object
  ai,         \* generateAllVideos: the loop index i, counted from 1
  attempted,  \* generateAllVideos: the section ids it called generateVideo for
  upc,        \* generateAudio: position
  ustory,     \* generateAudio: its local `story` object
  usec,       \* generateAudio: the section id of the call
  filenames,  \* upload.ts: originalFilename of each story
  scripts,    \* the data directory: the sections whose script file was written
  segmentCount,   \* StoryboardViewer: segments.length
  currentIndex,   \* StoryboardViewer: state currentIndex
  isPlaying,      \* StoryboardViewer: state isPlaying
  videoSrc,       \* StoryboardViewer: state videoSrc is set, the video element is rendered
  probing,        \* StoryboardViewer: the probe of the current scene is in flight
  driftTimerRef,  \* StoryboardViewer: driftTimerRef.current, 0 for null
  intervals,      \* the window: the interval timers set and not cleared
  hasCleanup,     \* StoryboardViewer: the last run of the playing effect returned its cleanup
  timersCreated,  \* the window: the number of setInterval calls
  superseded  \* history: the in-flight generation a newer one for the same segment overtook

storeVars == <<store, seen>>
runVars == <<story, pc, ret, upd, u, sections, i, inflight, runs>>
envVars == <<failSet, enableReferenceImages>>
regenVars == <<rpc, rstory, rseg, regens>>
genVars == <<vpc, vstory, vsec, gencalls>>
retryVars == <<maxRetries, script, attempt, ncalls, lastError, result, rtpc, waits>>
pollVars == <<pollCount, opDone, queries, operations>>
statusVars == <<qpc, qstory, response, requests>>
streamVars == <<fileSize, videoExists, range, streamed>>
dirVars == <<files, listing, loaded>>
textVars == <<parsed, uploaded, cleaned>>
allVars == <<apc, astory, ai, attempted>>
audioVars == <<upc, ustory, usec>>
pathVars == <<filenames, scripts>>
viewerVars ==
  <<segmentCount, currentIndex, isPlaying, videoSrc, probing, driftTimerRef, intervals,
    hasCleanup, timersCreated>>
laterVars == <<textVars, allVars, audioVars, pathVars, viewerVars>>

\* the variables of the sections up to the stories directory
notLater ==
  <<storeVars, runVars, envVars, regenVars, genVars, retryVars, pollVars, statusVars,
    deletes, media, streamVars, request, validation, wordCount, dirVars, superseded>>

notText == <<notLater, allVars, audioVars, pathVars, viewerVars>>
extraVars == <<streamVars, request, validation, wordCount, dirVars, laterVars>>
otherVars == <<pollVars, statusVars, deletes, media, extraVars>>
vars == <<storeVars, runVars, envVars, regenVars, genVars, retryVars, otherVars, superseded>>

\* ------------------------------------------------------------ state store
NoStory == [present |-> FALSE]

\* no reply has been sent
NoResponse == [code |-> 0]

\* upload.ts: the record the upload handler saves before it starts processStory
UploadedStory ==
  [present |-> TRUE, textContent |-> TRUE, status |-> "uploaded", progress |-> 0,
   error |-> FALSE, styleInfo |-> "none", referenceImage |-> FALSE,
   sections |-> <<>>, segments |-> <<>>]

PendingSegment(k) ==
  [id |-> k, status |-> "pending", videoPath |-> FALSE, audioPath |-> FALSE, error |-> FALSE]

PendingList(n) == [k \in 1..n |-> PendingSegment(k)]

IsDone(seg) == seg.status \in {"completed", "failed"}

DoneCount(list) == Cardinality({k \in 1..Len(list) : IsDone(list[k])})

\* what a status poll sees of a record: status, finished segments, total, progress
Key(rec) == <<rec.status, DoneCount(rec.segments), Len(rec.segments), rec.progress>>

\* fileStorage.saveStoryData: whole-record overwrite
saveStoryData(rec) ==
  /\ store' = rec
  /\ seen' = seen \cup {Key(rec)}

\* Object.assign(story, updates) in updateStoryStatus
AssignUpdates(rec, updates) ==
  [rec EXCEPT !.status = updates.status,
              !.progress = updates.progress,
              !.error = IF updates.error THEN TRUE ELSE @]

Updates(status, progress) == [status |-> status, progress |-> progress, error |-> FALSE]

FailedUpdates == [status |-> "failed", progress |-> 0, error |-> TRUE]

NoUpdates == Updates("none", 0)

\* ------------------------------------------------- updateStoryStatus
notRunV1 == <<envVars, genVars, retryVars, otherVars>>

notRun == <<notRunV1, regenVars, superseded>>

\* `await this.updateStoryStatus(storyId, updates)`: processStory goes on at `next`
CallUpdate(updates, next) ==
  /\ pc' = "upd_load"
  /\ upd' = updates
  /\ ret' = next

\* a catch block that logs the error and persists nothing
Catch_silent == pc' = "done" /\ UNCHANGED <<upd, ret>>

\* the catch block of processStory
Catch == CallUpdate(FailedUpdates, "done")

UpdLoad ==
  /\ pc = "upd_load"
  /\ u' = store
  /\ pc' = IF store.present THEN "upd_save" ELSE ret
  /\ UNCHANGED <<storeVars, story, ret, upd, sections, i, inflight, runs, notRun>>

UpdSave ==
  /\ pc = "upd_save"
  /\ saveStoryData(AssignUpdates(u, upd))
  /\ pc' = ret
  /\ u' = NoStory
  /\ upd' = NoUpdates
  /\ UNCHANGED <<story, ret, sections, i, inflight, runs, notRun>>

\* ------------------------------------------------- processor.ts: processStory
\* `if (!story || !story.textContent) throw`
HasContent(rec) == rec.present /\ rec.textContent

\* lines 15-30: upload (or a later caller) invokes processStory; it loads the record
processStory_load ==
  /\ pc \in {"idle", "done"}
  /\ runs < MaxRuns
  /\ runs' = runs + 1
  /\ story' = store
  /\ IF HasContent(store)
       THEN CallUpdate(Updates("extracting_style", 10), "style")
       ELSE Catch
  /\ UNCHANGED <<storeVars, u, sections, i, inflight, notRun>>

\* styleExtractor.ts lines 51-100: the style the model call gave, or, when the call
\* or the parse of its answer fails, the default style of the catch block
extractStyleInfo(callFails) == IF callFails THEN "default" ELSE "extracted"

\* lines 33-49 (and 63-72 when reference images are off): extractStyleInfo never
\* throws; its style goes on the local story, which is saved whole
processStory_style ==
  /\ pc = "style"
  /\ \E callFails \in BOOLEAN : story' = [story EXCEPT !.styleInfo = extractStyleInfo(callFails)]
  /\ saveStoryData(story')
  /\ IF enableReferenceImages
       THEN CallUpdate(Updates("generating_reference_image", 20), "reference")
       ELSE CallUpdate(Updates("generating_sections", 30), "analyze")
  /\ UNCHANGED <<u, sections, i, inflight, runs, notRun>>

\* an inner catch that would hand the error on to the catch block of processStory
OptionalStageFailed_fatal(updates, next) == Catch

\* lines 59-62 and 137-140: the inner catch logs a warning and processStory goes on
OptionalStageFailed(updates, next) == CallUpdate(updates, next)

\* lines 51-72: generateReferenceImage; a failure is caught and ignored
processStory_reference ==
  /\ pc = "reference"
  /\ \/ /\ story' = [story EXCEPT !.referenceImage = TRUE]
        /\ saveStoryData(story')
        /\ CallUpdate(Updates("generating_sections", 30), "analyze")
     \/ /\ UNCHANGED <<story, storeVars>>
        /\ OptionalStageFailed(Updates("generating_sections", 30), "analyze")
  /\ UNCHANGED <<u, sections, i, inflight, runs, notRun>>

\* lines 75-79: analyzeStory throws, or returns the sections the model answered
processStory_analyze ==
  /\ pc = "analyze"
  /\ \/ /\ Catch
        /\ UNCHANGED sections
     \/ /\ \E n \in 0..MaxSeg : sections' = n
        /\ pc' = "sections"
        /\ UNCHANGED <<upd, ret>>
  /\ UNCHANGED <<storeVars, story, u, i, inflight, runs, notRun>>

\* lines 82-96: sections.map(async ...) runs every callback up to its first await,
\* so the saveScript and generateBackgroundImage of every section are started
\* before any of them settles; Promise.all then waits for the tasks
processStory_sections_start ==
  /\ pc = "sections"
  /\ inflight' = 1..sections
  /\ pc' = "awaiting"
  /\ UNCHANGED <<storeVars, story, ret, upd, u, sections, i, runs, notRun>>

\* lines 89-102: the task of section k settles; a rejected task rejects Promise.all
\* at once and the catch block runs (the other tasks go on, nothing reads them)
processStory_section_settle(k) ==
  /\ pc = "awaiting"
  /\ k \in inflight
  /\ IF k \in failSet
       THEN /\ Catch
            /\ inflight' = {}
       ELSE /\ inflight' = inflight \ {k}
            /\ UNCHANGED <<pc, ret, upd>>
  /\ UNCHANGED <<storeVars, story, u, sections, i, runs, notRun>>

\* lines 103-120: every task fulfilled; story.sections and story.segments are set,
\* the local story is saved whole, then status generating_audio
processStory_sections ==
  /\ pc = "awaiting"
  /\ inflight = {}
  /\ story' = [story EXCEPT !.sections = PendingList(sections),
                            !.segments = PendingList(sections)]
  /\ saveStoryData(story')
  /\ CallUpdate(Updates("generating_audio", 60), "audio")
  /\ UNCHANGED <<u, sections, i, inflight, runs, notRun>>

\* lines 122-148: the audio stage; on success the local story is saved, a failure
\* is caught and ignored; then the run is marked completed
processStory_audio ==
  /\ pc = "audio"
  /\ \/ /\ saveStoryData(story)
        /\ CallUpdate(Updates("completed", 100), "done")
     \/ /\ UNCHANGED storeVars
        /\ OptionalStageFailed(Updates("completed", 100), "done")
  /\ UNCHANGED <<story, u, sections, i, inflight, runs, notRun>>

\* ------------------------------------------------- processor.ts: generateVideo
notGen == <<runVars, envVars, regenVars, retryVars, otherVars, superseded>>

\* lines 298-306: load; throws when the story or its style or the section is missing
generateVideo_load(sectionId) ==
  /\ vpc = "idle"
  /\ gencalls < MaxGenCalls
  /\ gencalls' = gencalls + 1
  /\ vstory' = store
  /\ vsec' = sectionId
  /\ vpc' = IF store.present /\ store.styleInfo # "none" /\ sectionId \in 1..Len(store.sections)
              THEN "generating" ELSE "idle"
  /\ UNCHANGED <<storeVars, notGen>>

\* lines 312-315 and 320-321: the outcome written on the section of the local story
SectionOutcome(sec, ok) ==
  IF ok THEN [sec EXCEPT !.videoPath = TRUE, !.status = "completed"]
        ELSE [sec EXCEPT !.status = "failed", !.error = TRUE]

\* lines 310-325: videoService.generateVideo returns a path or throws; either way
\* the local story is saved whole
generateVideo_finish ==
  /\ vpc = "generating"
  /\ \E ok \in BOOLEAN :
       saveStoryData([vstory EXCEPT !.sections[vsec] = SectionOutcome(@, ok)])
  /\ vpc' = "idle"
  /\ vstory' = NoStory
  /\ vsec' = 0
  /\ UNCHANGED <<gencalls, notGen>>

\* ------------------------------------------------- stories.ts: GET /:id/status
notStatus == <<storeVars, runVars, envVars, regenVars, genVars, retryVars, pollVars, deletes, media, extraVars, superseded>>

\* the reply built without the error field
ProcessingStatus_noerror(rec) ==
  [code |-> 200, status |-> rec.status, progress |-> rec.progress,
   sections |-> rec.sections, segments |-> rec.segments,
   styleInfo |-> rec.styleInfo, error |-> FALSE]

\* lines 49-60: the ProcessingStatus object sent with res.json
ProcessingStatus(rec) ==
  [code |-> 200, status |-> rec.status, progress |-> rec.progress,
   sections |-> rec.sections, segments |-> rec.segments,
   styleInfo |-> rec.styleInfo, error |-> rec.error]

\* lines 43-47: res.status(404)
NotFound == [code |-> 404]

\* lines 38-41: the request arrives and the handler reads the story file
getStatus_load ==
  /\ qpc = "idle"
  /\ requests < MaxPollRequests
  /\ requests' = requests + 1
  /\ qstory' = store
  /\ qpc' = "loaded"
  /\ response' = NoResponse
  /\ UNCHANGED notStatus

\* lines 43-60: the reply is built from what was read and sent
getStatus_respond ==
  /\ qpc = "loaded"
  /\ response' = IF qstory.present THEN ProcessingStatus(qstory) ELSE NotFound
  /\ qstory' = NoStory
  /\ qpc' = "idle"
  /\ UNCHANGED <<requests, notStatus>>

\* ------------------------------------------------- videos.ts: GET /:storyId/:segmentId
\* a header value is a sequence of characters; "bytes=" is written as one character
NoRange == <<>>

Digit == [c \in {"0", "1", "2", "3", "4", "5", "6", "7", "8", "9"} |->
            CASE c = "0" -> 0 [] c = "1" -> 1 [] c = "2" -> 2 [] c = "3" -> 3
              [] c = "4" -> 4 [] c = "5" -> 5 [] c = "6" -> 6 [] c = "7" -> 7
              [] c = "8" -> 8 [] c = "9" -> 9]

\* the value parseInt gives when the string does not start with a digit
NaN == -1

\* the longest prefix of digits of a string
RECURSIVE LeadingDigits(_)
LeadingDigits(str) ==
  IF str = <<>> \/ Head(str) \notin DOMAIN Digit THEN <<>>
  ELSE <<Head(str)>> \o LeadingDigits(Tail(str))

RECURSIVE DecimalValue(_)
DecimalValue(ds) ==
  IF ds = <<>> THEN 0
  ELSE 10 * DecimalValue(SubSeq(ds, 1, Len(ds) - 1)) + Digit[ds[Len(ds)]]

\* parseInt(str, 10) on a string without sign or blanks
parseInt(str) ==
  IF LeadingDigits(str) = <<>> THEN NaN ELSE DecimalValue(LeadingDigits(str))

\* range.replace(/bytes=/, ''): the first occurrence is removed
RECURSIVE replaceBytes(_)
replaceBytes(h) ==
  IF h = <<>> THEN <<>>
  ELSE IF Head(h) = "bytes=" THEN Tail(h)
  ELSE <<Head(h)>> \o replaceBytes(Tail(h))

\* the characters of a string before its first '-'
RECURSIVE BeforeDash(_)
BeforeDash(str) ==
  IF str = <<>> \/ Head(str) = "-" THEN <<>>
  ELSE <<Head(str)>> \o BeforeDash(Tail(str))

\* the characters of a string after its first '-' (none when there is no '-')
RECURSIVE AfterDash(_)
AfterDash(str) ==
  IF str = <<>> THEN <<>>
  ELSE IF Head(str) = "-" THEN Tail(str)
  ELSE AfterDash(Tail(str))

\* str.split('-'): parts[0] and parts[1]; a missing parts[1] is the empty string,
\* which the code's test `parts[1] ?` treats like undefined
split(str) == <<BeforeDash(str), BeforeDash(AfterDash(str))>>

chunksize_exclusive(start, end) == end - start

\* line 43
chunksize(start, end) == end - start + 1

\* fs.createReadStream(path, {start, end}): it throws when start or end is not a
\* non-negative integer or start > end
StreamThrows(start, end) == start < 0 \/ end < 0 \/ start > end

\* the bytes the stream delivers: start..end inclusive, cut at the end of the file
BytesRead(start, end, size) ==
  LET last == IF end < size - 1 THEN end ELSE size - 1
  IN  IF last < start THEN 0 ELSE last - start + 1

Answer(code, contentRange, contentLength, sent) ==
  [code |-> code, contentRange |-> contentRange, contentLength |-> contentLength,
   sent |-> sent]

\* lines 28-70 of the handler, for a story whose segment has a videoPath
StreamResponse(h, exists, size) ==
  IF ~exists THEN Answer(404, <<>>, 0, 0)
  ELSE IF h # NoRange
  THEN LET parts == split(replaceBytes(h))
           start == parseInt(parts[1])
           end == IF parts[2] # <<>> THEN parseInt(parts[2]) ELSE size - 1
       IN  IF StreamThrows(start, end) THEN Answer(500, <<>>, 0, 0)
           ELSE Answer(206, <<start, end, size>>, chunksize(start, end),
                       BytesRead(start, end, size))
  ELSE Answer(200, <<>>, size, size)

\* the decimal digits of a natural number
RECURSIVE Digits(_)
Digits(n) ==
  IF n < 10 THEN <<CHOOSE c \in DOMAIN Digit : Digit[c] = n>>
  ELSE Digits(n \div 10) \o Digits(n % 10)

\* the Range headers a player sends: bytes=a-b, bytes=a- and the suffix form bytes=-n
RangeHeader(a, b) == <<"bytes=">> \o Digits(a) \o <<"-">> \o Digits(b)

OpenRange(a) == <<"bytes=">> \o Digits(a) \o <<"-">>

SuffixRange(n) == <<"bytes=", "-">> \o Digits(n)

Headers ==
  {NoRange}
    \cup {RangeHeader(a, b) : a \in 0..MaxFileSize, b \in 0..MaxFileSize}
    \cup {OpenRange(a) : a \in 0..MaxFileSize}
    \cup {SuffixRange(n) : n \in 1..MaxFileSize}

\* GET /api/videos/:storyId/:segmentId
streamVideo ==
  /\ \E h \in Headers :
       /\ range' = h
       /\ streamed' = StreamResponse(h, videoExists, fileSize)
  /\ UNCHANGED <<storeVars, runVars, envVars, regenVars, genVars, retryVars, pollVars,
                 statusVars, deletes, media, fileSize, videoExists, request,
                 validation, wordCount, dirVars, laterVars, superseded>>

IdleStream ==
  fileSize = 0 /\ videoExists = FALSE /\ range = NoRange /\ streamed = NoResponse

\* videoService.ts lines 31-39: the request built for a section, duration:
\* section.duration || 8; a prompt is kept by its length and its trimmed length,
\* the optional duration by whether it is given and its value
DefaultRequest ==
  [prompt |-> [length |-> 1, trimmed |-> 1], durationGiven |-> TRUE, duration |-> 8]

IdleRequest == request = DefaultRequest /\ validation = NoResponse

\* ------------------------------------------------- storyAnalyzer.ts
\* config/index.ts lines 39-46, the defaults
fixedSegmentCount == 0
minSegments == 3
maxSegments == 12
wordsPerSegment == 150

Max(a, b) == IF a > b THEN a ELSE b

Clamp(n) == Max(minSegments, IF maxSegments < n THEN maxSegments ELSE n)

\* Math.ceil(a / b) for positive integers
Ceil(a, b) == (a + b - 1) \div b

\* storyAnalyzer.ts lines 15-61, on the number of words of the text
calculateSegmentCount(words) ==
  IF fixedSegmentCount > 0 THEN Clamp(fixedSegmentCount)
  ELSE Clamp(CASE words < 300 -> 3
               [] words >= 300 /\ words < 600 -> 4
               [] words >= 600 /\ words < 900 -> 5
               [] words >= 900 /\ words < 1200 -> 6
               [] words >= 1200 /\ words < 1500 -> 7
               [] words >= 1500 /\ words < 2000 -> 8
               [] OTHER -> Ceil(words, wordsPerSegment))

\* word counts on both sides of every threshold
WordCounts == {1, 299, 300, 500, 599, 600, 899, 900, 1199, 1200, 1499, 1500, 1999, 2000, 2500}

\* storyAnalyzer.ts lines 66-156 with the processor's lines 26-40: the model answers
\* a list of any length, a length other than segmentCount is only warned about
\* (137-139), every element gets id index + 1 and the list is persisted as the
\* story's pending segments; an unusable answer throws and the run fails. The
\* stage is run once on the uploaded story
analyzeStory ==
  /\ store.status = "uploaded"
  /\ \/ \E answered \in 0..MaxAnswered :
          saveStoryData([store EXCEPT !.segments = PendingList(answered),
                                      !.status = "generating", !.progress = 30])
     \/ saveStoryData([store EXCEPT !.status = "failed", !.error = TRUE])
  /\ UNCHANGED <<runVars, envVars, regenVars, genVars, retryVars, otherVars, superseded>>

IdleAnalysis == wordCount = 0

\* ------------------------------------------------- fileStorage.ts: the stories directory
StoryIds == 1..MaxStories

AbsentFile == [present |-> FALSE]

\* a file whose content is JSON.stringify(data); while a writeFile of it is under
\* way (opened with truncation, content not yet written) it is torn
StoryFile(data, torn) == [present |-> TRUE, data |-> data, torn |-> torn]

\* what an operation returned; nothing yet
NoReturn == [kind |-> "none"]

\* the list of the others, everything else of the pipeline
notDir ==
  <<storeVars, runVars, envVars, regenVars, genVars, retryVars, pollVars, statusVars,
    deletes, media, streamVars, request, validation, wordCount, laterVars,
    superseded>>

\* saveStoryData line 54, fs.writeFile: the file is opened with truncation. The
\* upload handler writes the first version with its uploadedAt (upload.ts 67-79);
\* a later save writes the next version of the record
writeFile_open(id) ==
  /\ \/ /\ ~files[id].present
        /\ \E t \in 1..MaxTime :
             files' = [files EXCEPT ![id] =
                         StoryFile([id |-> id, uploadedAt |-> t, version |-> 1], TRUE)]
     \/ /\ files[id].present /\ ~files[id].torn
        /\ files[id].data.version < MaxVersion
        /\ files' = [files EXCEPT ![id] =
                       StoryFile([files[id].data EXCEPT !.version = @ + 1], TRUE)]
  /\ UNCHANGED <<listing, loaded, notDir>>

\* fs.writeFile: the content is written and the promise resolves
writeFile_done(id) ==
  /\ files[id].present /\ files[id].torn
  /\ files' = [files EXCEPT ![id].torn = FALSE]
  /\ UNCHANGED <<listing, loaded, notDir>>

\* lines 60-71: readFile and JSON.parse; ENOENT gives null, any other error (the
\* SyntaxError of JSON.parse on a torn file) is thrown again
LoadResult(file) ==
  IF ~file.present THEN [kind |-> "null"]
  ELSE IF file.torn THEN [kind |-> "throws"]
  ELSE [kind |-> "story", data |-> file.data]

loadStoryData(id) ==
  /\ loaded' = [kind |-> "load", of |-> id, result |-> LoadResult(files[id])]
  /\ UNCHANGED <<files, listing, notDir>>

\* Array.prototype.sort with (a, b) => time(b) - time(a): stable, newest first
RECURSIVE InsertByTime(_, _)
InsertByTime(x, sorted) ==
  IF sorted = <<>> THEN <<x>>
  ELSE IF x.uploadedAt > Head(sorted).uploadedAt THEN <<x>> \o sorted
  ELSE <<Head(sorted)>> \o InsertByTime(x, Tail(sorted))

RECURSIVE SortByTime(_)
SortByTime(stories) ==
  IF stories = <<>> THEN <<>>
  ELSE InsertByTime(stories[Len(stories)], SortByTime(SubSeq(stories, 1, Len(stories) - 1)))

\* fs.readdir: the names of the directory in some order
ReaddirOrders ==
  LET present == {id \in StoryIds : files[id].present}
  IN  {order \in UNION {[1..n -> present] : n \in 0..MaxStories} :
         /\ Len(order) = Cardinality(present)
         /\ \A a, b \in DOMAIN order : a # b => order[a] # order[b]}

\* lines 76-98: every file is loaded; a load that throws sends the whole call to
\* the catch block, which returns []
ListResult(order) ==
  IF \E n \in DOMAIN order : LoadResult(files[order[n]]).kind = "throws"
  THEN <<>>
  ELSE SortByTime([n \in DOMAIN order |-> files[order[n]].data])

listStories ==
  /\ \E order \in ReaddirOrders : listing' = [kind |-> "list", stories |-> ListResult(order)]
  /\ UNCHANGED <<files, loaded, notDir>>

\* deleteStory line 105: fs.unlink of the story file
unlink(id) ==
  /\ files[id].present
  /\ files' = [files EXCEPT ![id] = AbsentFile]
  /\ UNCHANGED <<listing, loaded, notDir>>

IdleDir ==
  /\ files = [id \in StoryIds |-> AbsentFile]
  /\ listing = NoReturn /\ loaded = NoReturn

\* ------------------------------------------------- fileParser and upload.ts
\* a text is a sequence of runs [c, n]: n times the character c, where c is a
\* letter "a", a space "sp", "tab", "cr" or "lf"
WhiteSpace == {"sp", "tab", "cr", "lf"}

\* the runs of a text joined: no empty run, no two adjacent runs of one character
RECURSIVE Runs(_)
Runs(t) ==
  IF t = <<>> THEN <<>>
  ELSE LET h == Head(t)
           rest == Runs(Tail(t))
       IN  IF h.n = 0 THEN rest
           ELSE IF rest # <<>> /\ rest[1].c = h.c
           THEN <<[c |-> h.c, n |-> h.n + rest[1].n]>> \o Tail(rest)
           ELSE <<h>> \o rest

\* content.length
RECURSIVE TextLength(_)
TextLength(t) == IF t = <<>> THEN 0 ELSE Head(t).n + TextLength(Tail(t))

\* String.prototype.trim
trim(t) ==
  LET solid == {k \in DOMAIN t : t[k].c \notin WhiteSpace}
  IN  IF solid = {} THEN <<>>
      ELSE SubSeq(t, CHOOSE k \in solid : \A j \in solid : k <= j,
                     CHOOSE k \in solid : \A j \in solid : k >= j)

\* part_005 lines 43-57
validateContent(content) ==
  /\ TextLength(content) # 0
  /\ ~(TextLength(content) < 100)
  /\ ~(TextLength(content) > 100000)

\* part_005 lines 62-69, one replace after the other, each over the whole string:
\* /\r\n/g takes the last cr of a run that an lf follows
cleanContent(content) ==
  LET t0 == Runs(content)
      crlf == Runs([k \in DOMAIN t0 |->
                IF t0[k].c = "cr" /\ k < Len(t0) /\ t0[k + 1].c = "lf"
                THEN [t0[k] EXCEPT !.n = @ - 1] ELSE t0[k]])
      newlines == [k \in DOMAIN crlf |->
                IF crlf[k].c = "lf" /\ crlf[k].n >= 3
                THEN [crlf[k] EXCEPT !.n = 2] ELSE crlf[k]]
      tabs == Runs([k \in DOMAIN newlines |->
                IF newlines[k].c = "tab"
                THEN [newlines[k] EXCEPT !.c = "sp"] ELSE newlines[k]])
      spaces == [k \in DOMAIN tabs |->
                IF tabs[k].c = "sp" /\ tabs[k].n >= 2
                THEN [tabs[k] EXCEPT !.n = 1] ELSE tabs[k]]
  IN  trim(spaces)

\* upload.ts lines 41-100: no file gives 400; parseFile returns the trimmed text
\* or throws (500); a text that validateContent refuses gives 400; otherwise the
\* cleaned text is saved as the new record and processStory is started
upload ==
  /\ uploaded = NoResponse
  /\ \E fileGiven, parseOk \in BOOLEAN :
       LET textContent == trim(Runs(parsed))
           refused(code) == [code |-> code, record |-> FALSE, text |-> <<>>,
                             processing |-> FALSE]
       IN  uploaded' =
             IF ~fileGiven THEN refused(400)
             ELSE IF ~parseOk THEN refused(500)
             ELSE IF ~validateContent(textContent) THEN refused(400)
             ELSE [code |-> 200, record |-> TRUE, text |-> cleanContent(textContent),
                   processing |-> TRUE]
  /\ UNCHANGED <<notText, parsed, cleaned>>

\* cleanContent called on the text, then on its own result
clean ==
  /\ Len(cleaned) < 2
  /\ cleaned' = Append(cleaned, cleanContent(IF cleaned = <<>> THEN parsed
                                              ELSE cleaned[Len(cleaned)]))
  /\ UNCHANGED <<notText, parsed, uploaded>>

IdleText == parsed = <<>> /\ uploaded = NoResponse /\ cleaned = <<>>

\* ------------------------------------------------- processor.ts: generateAllVideos
\* everything but the store, generateVideo and generateAllVideos
notAll ==
  <<runVars, envVars, regenVars, retryVars, pollVars, statusVars, deletes, media,
    streamVars, request, validation, wordCount, dirVars, textVars, audioVars,
    pathVars, viewerVars, superseded>>

\* a skip test that never skips
AlreadyCompleted_never(section) == FALSE

\* line 348: section.status === 'completed' && section.videoPath
AlreadyCompleted(section) == section.status = "completed" /\ section.videoPath

\* lines 331-335: load; throws when the story or its style is missing
generateAllVideos_load ==
  /\ apc = "idle"
  /\ astory' = store
  /\ ai' = 1
  /\ apc' = IF store.present /\ store.styleInfo # "none" THEN "loop" ELSE "thrown"
  /\ UNCHANGED <<attempted, storeVars, genVars, notAll>>

\* lines 344-355: the loop head; a completed section is skipped, for any other one
\* generateVideo is about to be called
generateAllVideos_next ==
  /\ apc = "loop"
  /\ IF ai > Len(astory.sections)
       THEN apc' = "done" /\ UNCHANGED <<ai, attempted>>
       ELSE IF AlreadyCompleted(astory.sections[ai])
         THEN ai' = ai + 1 /\ UNCHANGED <<apc, attempted>>
         ELSE /\ apc' = "call"
              /\ attempted' = Append(attempted, astory.sections[ai].id)
              /\ UNCHANGED ai
  /\ UNCHANGED <<astory, storeVars, genVars, notAll>>

\* line 356: await this.generateVideo(storyId, section.id), the load of the call
generateAllVideos_call ==
  /\ apc = "call"
  /\ gencalls < Len(attempted)
  /\ generateVideo_load(astory.sections[ai].id)

\* lines 357-369: the call returned or threw; the catch block only counts the
\* failure, and the loop goes on (after the 2 s delay) with the next section
generateAllVideos_resume ==
  /\ apc = "call"
  /\ gencalls = Len(attempted)
  /\ vpc = "idle"
  /\ ai' = ai + 1
  /\ apc' = "loop"
  /\ UNCHANGED <<astory, attempted, storeVars, genVars, notAll>>

IdleAll == apc = "idle" /\ astory = NoStory /\ ai = 0 /\ attempted = <<>>

\* ------------------------------------------------- processor.ts: generateAudio
\* everything but the store and generateAudio
notAudio ==
  <<runVars, envVars, regenVars, genVars, retryVars, pollVars, statusVars, deletes,
    media, streamVars, request, validation, wordCount, dirVars, textVars, allVars,
    pathVars, viewerVars, superseded>>

\* lines 264-273: load; throws when the story or the section is missing
generateAudio_load(sectionId) ==
  /\ upc = "idle"
  /\ ustory' = store
  /\ usec' = sectionId
  /\ upc' = IF store.present /\ sectionId \in 1..Len(store.sections)
              THEN "generating" ELSE "idle"
  /\ UNCHANGED <<storeVars, notAudio>>

\* lines 277-291: audioService.generateAudio returns a path, which is set on the
\* section of the local story and the story saved whole, or throws, and then
\* nothing is saved
generateAudio_finish ==
  /\ upc = "generating"
  /\ \/ saveStoryData([ustory EXCEPT !.sections[usec].audioPath = TRUE])
     \/ UNCHANGED storeVars
  /\ upc' = "idle"
  /\ ustory' = NoStory
  /\ usec' = 0
  /\ UNCHANGED notAudio

IdleAudio == upc = "idle" /\ ustory = NoStory /\ usec = 0

\* ------------------------------------------------- fileStorage.ts: media paths
\* a name is a sequence of characters: "a" a lower-case letter, "A" an upper-case
\* one, "sp" white space, "!" a special character, "." a dot; a path is a
\* sequence of names
notPath == <<notLater, textVars, allVars, audioVars, viewerVars>>

\* config.storage.dataDir
dataDir == << <<"d", "a", "t", "a">> >>

\* /\.[^/.]+$/ replaced by '': the last dot and what follows it, when something does
RemoveExtension(t) ==
  LET dots == {k \in DOMAIN t : t[k] = "."} IN
  IF dots = {} THEN t
  ELSE LET d == CHOOSE k \in dots : \A j \in dots : j <= k IN
       IF d = Len(t) THEN t ELSE SubSeq(t, 1, d - 1)

IsKept(c) == c \in {"a", "A", "sp", "-", "_"}

\* /[^a-zA-Z0-9\s-_]/g replaced by ''
RemoveSpecial(t) == SelectSeq(t, IsKept)

RECURSIVE Hyphenate(_)
\* /\s+/g replaced by '-'
Hyphenate(t) ==
  IF t = <<>> THEN <<>>
  ELSE IF Head(t) # "sp" THEN <<Head(t)>> \o Hyphenate(Tail(t))
  ELSE IF Len(t) > 1 /\ t[2] = "sp" THEN Hyphenate(Tail(t))
  ELSE <<"-">> \o Hyphenate(Tail(t))

toLowerCase(t) == [k \in DOMAIN t |-> IF t[k] = "A" THEN "a" ELSE t[k]]

substring(t, n) == SubSeq(t, 1, IF Len(t) < n THEN Len(t) ELSE n)

sanitizeStoryName(filename) ==
  substring(toLowerCase(Hyphenate(RemoveSpecial(RemoveExtension(filename)))), 50)

sanitizeSectionName(sectionName) ==
  substring(toLowerCase(Hyphenate(RemoveSpecial(sectionName))), 30)

\* path.join(directory, name): an empty name adds nothing
join(directory, name) == IF name = <<>> THEN directory ELSE Append(directory, name)

getStoryDirectory(storyName) == join(dataDir, storyName)

getSectionDirectory(storyName, sectionName) ==
  join(getStoryDirectory(storyName), sectionName)

getScriptPath(storyName, sectionName) ==
  join(getSectionDirectory(storyName, sectionName), <<"s", "c", "r", "i", "p", "t">>)

RECURSIVE Names(_, _)
\* the names of 1..n characters over an alphabet
Names(alphabet, n) ==
  IF n = 0 THEN {}
  ELSE Names(alphabet, n - 1)
         \cup {<<c>> : c \in alphabet}
         \cup {Append(t, c) : t \in Names(alphabet, n - 1), c \in alphabet}

Filenames == Names({"a", "A", "!", "."}, MaxNameLength)

SectionNames == Names({"a", "A", "!"}, MaxNameLength)

\* processor.ts lines 75-86: the script of section k of story s, named by the
\* analyzer, is written under the sanitized story and section names
saveScript(s, k, sectionName) ==
  /\ Cardinality(scripts) < MaxScripts
  /\ \A w \in scripts : ~(w.story = s /\ w.id = k)
  /\ scripts' = scripts \cup {[story |-> s, id |-> k, sectionName |-> sectionName]}
  /\ UNCHANGED <<filenames, notPath>>

\* the place the script of a written section is at
ScriptPathOf(w) ==
  getScriptPath(sanitizeStoryName(filenames[w.story]), sanitizeSectionName(w.sectionName))

IdlePath == filenames = <<>> /\ scripts = {}

\* ------------------------------------------------- part_001: StoryboardViewer
notViewer == <<notLater, textVars, allVars, audioVars, pathVars>>

\* the timer state: the ref, the live intervals, whether a cleanup is registered,
\* the number of intervals created
TimerState == [ref |-> driftTimerRef, live |-> intervals, cleanup |-> hasCleanup,
               created |-> timersCreated]

\* a clearDrift that leaves the interval running
clearDrift_kept(t) == t

\* lines 219-224: clearDrift
clearDrift(t) ==
  IF t.ref # 0 THEN [t EXCEPT !.live = @ \ {t.ref}, !.ref = 0] ELSE t

\* lines 214-251: the effect on [isPlaying, currentIndex]; the cleanup the previous
\* run returned is called first
PlayingEffect(t, playing, video) ==
  LET afterCleanup == IF t.cleanup THEN clearDrift(t) ELSE t IN
  IF ~video THEN [afterCleanup EXCEPT !.cleanup = FALSE]
  ELSE IF playing
    THEN IF afterCleanup.ref = 0
           THEN [afterCleanup EXCEPT !.ref = afterCleanup.created + 1,
                                !.live = @ \cup {afterCleanup.created + 1},
                                !.created = @ + 1,
                                !.cleanup = TRUE]
           ELSE [afterCleanup EXCEPT !.cleanup = TRUE]
    ELSE [clearDrift(afterCleanup) EXCEPT !.cleanup = FALSE]

\* lines 309-341: the effect on [currentIndex] clears the timer itself
SegmentEffect(t) ==
  IF t.ref # 0 THEN [t EXCEPT !.live = @ \ {t.ref}, !.ref = 0] ELSE t

\* the render after setCurrentIndex(index) and setIsPlaying(playing), and the
\* effects whose dependencies changed, in the order they are declared; the
\* segment effect and the probe effect (lines 344-394) reset videoSrc and the
\* probe starts again
Render(index, playing) ==
  LET indexChanged == index # currentIndex
      t1 == IF indexChanged \/ playing # isPlaying
              THEN PlayingEffect(TimerState, playing, videoSrc) ELSE TimerState
      t2 == IF indexChanged THEN SegmentEffect(t1) ELSE t1
  IN /\ currentIndex' = index
     /\ isPlaying' = playing
     /\ driftTimerRef' = t2.ref
     /\ intervals' = t2.live
     /\ hasCleanup' = t2.cleanup
     /\ timersCreated' = t2.created
     /\ videoSrc' = IF indexChanged THEN FALSE ELSE videoSrc
     /\ probing' = IF indexChanged THEN TRUE ELSE probing
     /\ UNCHANGED <<segmentCount, notViewer>>

Mounted == segmentCount > 0

\* lines 195-200
handleNext ==
  /\ Mounted
  /\ IF currentIndex < segmentCount - 1
       THEN Render(currentIndex + 1, FALSE)
       ELSE UNCHANGED vars

\* lines 202-207
handlePrevious ==
  /\ Mounted
  /\ IF currentIndex > 0
       THEN Render(currentIndex - 1, FALSE)
       ELSE UNCHANGED vars

\* lines 516-519: the click on the thumbnail of a scene
selectThumbnail(index) ==
  /\ Mounted
  /\ index \in 0..(segmentCount - 1)
  /\ Render(index, FALSE)

\* lines 209-211
togglePlay ==
  /\ Mounted
  /\ isPlaying \/ timersCreated < MaxTimers
  /\ Render(currentIndex, ~isPlaying)

\* lines 363-372: the probe found a playable source; the video element is rendered
probe_found ==
  /\ probing
  /\ videoSrc' = TRUE
  /\ probing' = FALSE
  /\ UNCHANGED <<segmentCount, currentIndex, isPlaying, driftTimerRef, intervals,
                 hasCleanup, timersCreated, notViewer>>

\* line 385: no candidate is playable
probe_failed ==
  /\ probing
  /\ probing' = FALSE
  /\ UNCHANGED <<segmentCount, currentIndex, isPlaying, videoSrc, driftTimerRef,
                 intervals, hasCleanup, timersCreated, notViewer>>

IdleViewer ==
  /\ segmentCount = 0 /\ currentIndex = 0 /\ isPlaying = FALSE /\ videoSrc = FALSE
  /\ probing = FALSE /\ driftTimerRef = 0 /\ intervals = {} /\ hasCleanup = FALSE
  /\ timersCreated = 0

IdleLater == IdleText /\ IdleAll /\ IdleAudio /\ IdlePath /\ IdleViewer

\* the parts of the later sections at rest
IdleExtras == IdleStream /\ IdleRequest /\ IdleAnalysis /\ IdleDir /\ IdleLater

\* ------------------------------------------------- specification: processor.ts
IdleParts ==
  /\ rpc = "idle" /\ rstory = NoStory /\ rseg = 0 /\ regens = 0
  /\ vpc = "idle" /\ vstory = NoStory /\ vsec = 0 /\ gencalls = 0
  /\ maxRetries = 0 /\ script = <<>> /\ attempt = 0 /\ ncalls = 0 /\ waits = <<>>
  /\ lastError = "" /\ result = [success |-> FALSE, error |-> "", attempts |-> 0, thrown |-> FALSE]
  /\ rtpc = "idle"
  /\ pollCount = 0 /\ opDone = FALSE /\ queries = 0 /\ operations = 0
  /\ qpc = "idle" /\ qstory = NoStory /\ response = NoResponse /\ requests = 0
  /\ deletes = 0 /\ superseded = "none"

InitStory ==
  /\ store = UploadedStory
  /\ seen = {Key(UploadedStory)}
  /\ story = NoStory /\ pc = "idle" /\ ret = "idle" /\ upd = NoUpdates /\ u = NoStory
  /\ sections = 0 /\ i = 0 /\ inflight = {} /\ runs = 0
  /\ failSet \in SUBSET (1..MaxSeg)

\* the story uploaded and every operation of the pipeline at rest
IdlePipeline ==
  /\ store = UploadedStory /\ seen = {}
  /\ story = NoStory /\ pc = "idle" /\ ret = "idle" /\ upd = NoUpdates /\ u = NoStory
  /\ sections = 0 /\ i = 0 /\ inflight = {} /\ runs = 0
  /\ failSet = {} /\ enableReferenceImages = FALSE
  /\ media = {}
  /\ IdleParts

\* a segment with a videoPath, its file of any size or missing
InitStream ==
  /\ IdlePipeline
  /\ fileSize \in 1..MaxFileSize
  /\ videoExists \in BOOLEAN
  /\ range = NoRange /\ streamed = NoResponse
  /\ IdleRequest /\ IdleAnalysis /\ IdleDir /\ IdleLater

NextStream == streamVideo

\* an uploaded story of any length at the segmentation stage
InitSegment ==
  /\ IdlePipeline
  /\ IdleStream /\ IdleRequest /\ IdleDir /\ IdleLater
  /\ wordCount \in WordCounts

NextSegment == analyzeStory

SpecSegment == InitSegment /\ [][NextSegment]_vars

\* an empty stories directory; uploads, saves, loads, listings and deletes follow
InitDir ==
  /\ IdlePipeline
  /\ IdleExtras

NextDir ==
  \/ \E id \in StoryIds : writeFile_open(id)
  \/ \E id \in StoryIds : writeFile_done(id)
  \/ \E id \in StoryIds : loadStoryData(id)
  \/ listStories
  \/ \E id \in StoryIds : unlink(id)

SpecDir == InitDir /\ [][NextDir]_vars

\* the sections of the earlier specifications at rest
IdleEarlier == IdlePipeline /\ IdleStream /\ IdleRequest /\ IdleAnalysis /\ IdleDir

\* files of letters with a run of spaces inside, of lengths around both limits
UploadTexts ==
  {Runs(<<[c |-> "a", n |-> k], [c |-> "sp", n |-> m], [c |-> "a", n |-> j]>>) :
     k \in {0, 1, 50, 98, 99, 100, 101, 99999, 100000, 100001},
     m \in {0, 1, 2, 3, 98},
     j \in {0, 1}}

InitUpload ==
  /\ IdleEarlier /\ IdleAll /\ IdleAudio /\ IdlePath /\ IdleViewer
  /\ parsed \in UploadTexts
  /\ uploaded = NoResponse /\ cleaned = <<>>

SpecUpload == InitUpload /\ [][upload]_vars

\* every text of at most MaxTextRuns runs of at most MaxRunLength characters
CleanTexts ==
  {Runs(t) : t \in UNION {[1..len -> [c : {"a"} \cup WhiteSpace, n : 1..MaxRunLength]] :
                            len \in 0..MaxTextRuns}}

InitClean ==
  /\ IdleEarlier /\ IdleAll /\ IdleAudio /\ IdlePath /\ IdleViewer
  /\ parsed \in CleanTexts
  /\ uploaded = NoResponse /\ cleaned = <<>>

SpecClean == InitClean /\ [][clean]_vars

\* the sections a processed story can hold: pending, completed with its video,
\* or failed
SectionStates(k) ==
  {PendingSegment(k),
   [PendingSegment(k) EXCEPT !.status = "completed", !.videoPath = TRUE],
   [PendingSegment(k) EXCEPT !.status = "failed", !.error = TRUE]}

\* a story after processStory, with or without its style, and generateAllVideos
\* about to be called
InitAll ==
  /\ \E n \in 0..MaxSeg : \E list \in [1..n -> UNION {SectionStates(k) : k \in 1..n}] :
       /\ \A k \in 1..n : list[k] \in SectionStates(k)
       /\ \E style \in {"none", "extracted"} :
            store = [UploadedStory EXCEPT !.status = "completed", !.progress = 100,
                                          !.styleInfo = style, !.sections = list,
                                          !.segments = PendingList(n)]
  /\ seen = {}
  /\ story = NoStory /\ pc = "idle" /\ ret = "idle" /\ upd = NoUpdates /\ u = NoStory
  /\ sections = 0 /\ i = 0 /\ inflight = {} /\ runs = 0
  /\ failSet = {} /\ enableReferenceImages = FALSE
  /\ media = {}
  /\ IdleParts
  /\ IdleStream /\ IdleRequest /\ IdleAnalysis /\ IdleDir /\ IdleLater

NextAll ==
  \/ generateAllVideos_load
  \/ generateAllVideos_next
  \/ generateAllVideos_call
  \/ generateVideo_finish
  \/ generateAllVideos_resume

SpecAll == InitAll /\ [][NextAll]_vars

\* the viewer mounted on a non-empty segment list: lines 184-190 and the first
\* run of the effects
InitViewer ==
  /\ IdleEarlier /\ IdleText /\ IdleAll /\ IdleAudio /\ IdlePath
  /\ segmentCount \in 1..MaxScenes
  /\ currentIndex = 0 /\ isPlaying = FALSE /\ videoSrc = FALSE /\ probing = TRUE
  /\ driftTimerRef = 0 /\ intervals = {} /\ hasCleanup = FALSE /\ timersCreated = 0

NextViewer ==
  \/ handleNext
  \/ handlePrevious
  \/ \E index \in 0..(MaxScenes - 1) : selectThumbnail(index)
  \/ togglePlay
  \/ probe_found
  \/ probe_failed

SpecViewer == InitViewer /\ [][NextViewer]_vars

\* stories uploaded under any file names, nothing written yet
InitPath ==
  /\ IdleEarlier /\ IdleText /\ IdleAll /\ IdleAudio /\ IdleViewer
  /\ filenames \in [1..MaxStories -> Filenames]
  /\ scripts = {}

NextPath ==
  \E s \in 1..MaxStories, k \in 1..MaxSeg, sectionName \in SectionNames :
    saveScript(s, k, sectionName)

SpecPath == InitPath /\ [][NextPath]_vars

\* the requests POST /:id/sections/:sectionId/video and .../audio arriving at any
\* time on a processed story
NextSections ==
  \/ \E s \in 1..MaxSeg : generateVideo_load(s)
  \/ generateVideo_finish
  \/ \E s \in 1..MaxSeg : generateAudio_load(s)
  \/ generateAudio_finish

SpecSections == InitAll /\ [][NextSections]_vars

SpecStream == InitStream /\ [][NextStream]_vars

Init ==
  /\ InitStory
  /\ enableReferenceImages \in BOOLEAN
  /\ media = {}
  /\ IdleParts
  /\ IdleExtras

Next ==
  \/ processStory_load
  \/ UpdLoad
  \/ UpdSave
  \/ processStory_style
  \/ processStory_reference
  \/ processStory_analyze
  \/ processStory_sections_start
  \/ \E k \in 1..MaxSeg : processStory_section_settle(k)
  \/ processStory_sections
  \/ processStory_audio
  \/ \E s \in 1..MaxSeg : generateVideo_load(s)
  \/ generateVideo_finish

Spec == Init /\ [][Next]_vars

\* the pipeline run of an upload with status requests arriving at any time
NextStatus ==
  \/ processStory_load
  \/ UpdLoad
  \/ UpdSave
  \/ processStory_style
  \/ processStory_reference
  \/ processStory_analyze
  \/ processStory_sections_start
  \/ \E k \in 1..MaxSeg : processStory_section_settle(k)
  \/ processStory_sections
  \/ processStory_audio
  \/ getStatus_load
  \/ getStatus_respond

SpecStatus == Init /\ [][NextStatus]_vars

\* the continuations of a processStory run: once the call it awaits has returned
\* or failed, the event loop runs the next step of the run
RunContinue ==
  \/ UpdLoad
  \/ UpdSave
  \/ processStory_style
  \/ processStory_reference
  \/ processStory_analyze
  \/ processStory_sections_start
  \/ \E k \in 1..MaxSeg : processStory_section_settle(k)
  \/ processStory_sections
  \/ processStory_audio

\* processStory started by upload (or called again) with nothing else running
NextRun ==
  \/ processStory_load
  \/ RunContinue

\* every awaited call of the run returns or fails: the run is never stuck at an await
SpecLive == Init /\ [][NextRun]_vars /\ WF_vars(RunContinue)

\* ------------------------------------- per-segment variant: processStory
\* lines 10-23 of the variant: load, then status analyzing
processStoryV1_load ==
  /\ pc \in {"idle", "done"}
  /\ runs < MaxRuns
  /\ runs' = runs + 1
  /\ story' = store
  /\ IF HasContent(store)
       THEN CallUpdate(Updates("analyzing", 10), "v1_analyze")
       ELSE Catch
  /\ UNCHANGED <<storeVars, u, sections, i, inflight, notRun>>

\* lines 26-40: analyzeStory throws, or its segments replace story.segments as
\* pending ones and the local story is saved whole
processStoryV1_analyze ==
  /\ pc = "v1_analyze"
  /\ \/ /\ Catch
        /\ UNCHANGED <<story, storeVars, sections, i>>
     \/ /\ \E n \in 0..MaxSeg : sections' = n
        /\ story' = [story EXCEPT !.segments = PendingList(sections')]
        /\ saveStoryData(story')
        /\ i' = 0
        /\ CallUpdate(Updates("generating", 30), "v1_loop")
  /\ UNCHANGED <<u, inflight, runs, notRun>>

\* line 46 and 50: Math.round(30 + (i / totalSegments) * 60), round half up
LoopProgress(index, totalSegments) ==
  (2 * (30 * totalSegments + 60 * index) + totalSegments) \div (2 * totalSegments)

\* lines 44-52 and 78-82: loop head; the progress update of segment i, or completed
processStoryV1_loop ==
  /\ pc = "v1_loop"
  /\ IF i < Len(story.segments)
       THEN CallUpdate(Updates("generating", LoopProgress(i, Len(story.segments))), "v1_mark")
       ELSE CallUpdate(Updates("completed", 100), "done")
  /\ UNCHANGED <<storeVars, story, u, sections, i, inflight, runs, notRun>>

\* lines 55-56: segment.status = 'generating', local story saved whole
processStoryV1_mark ==
  /\ pc = "v1_mark"
  /\ story' = [story EXCEPT !.segments[i + 1].status = "generating"]
  /\ saveStoryData(story')
  /\ pc' = "v1_generate"
  /\ superseded' = IF rpc = "generating" /\ rseg = i + 1 THEN "regen" ELSE superseded
  /\ UNCHANGED <<ret, upd, u, sections, i, inflight, runs, notRunV1, regenVars>>

\* lines 65-72: the result of geminiVeo.generateVideo written on the segment
SegmentOutcome(seg, ok) ==
  IF ok THEN [seg EXCEPT !.videoPath = TRUE, !.status = "completed"]
        ELSE [seg EXCEPT !.status = "failed", !.error = TRUE]

\* lines 59-75: generateVideo returns a result (it never throws), the segment takes
\* it, the local story is saved whole and the loop goes to the next segment
processStoryV1_generate ==
  /\ pc = "v1_generate"
  /\ story' = [story EXCEPT !.segments[i + 1] = SegmentOutcome(@, (i + 1) \notin failSet)]
  /\ saveStoryData(story')
  /\ i' = i + 1
  /\ pc' = "v1_loop"
  /\ superseded' = IF superseded = "run" THEN "none" ELSE superseded
  /\ UNCHANGED <<ret, upd, u, sections, inflight, runs, notRunV1, regenVars>>

\* ------------------------------------- per-segment variant: regenerateSegment
notRegen == <<runVars, envVars, genVars, retryVars, otherVars>>

\* lines 113-121: load; throws when the story or the segment is missing
regenerateSegment_load(segmentId) ==
  /\ rpc = "idle"
  /\ regens < MaxRegens
  /\ regens' = regens + 1
  /\ rstory' = store
  /\ rseg' = segmentId
  /\ rpc' = IF store.present /\ segmentId \in 1..Len(store.segments)
              THEN "mark" ELSE "idle"
  /\ UNCHANGED <<storeVars, superseded, notRegen>>

\* lines 123-124: segment.status = 'generating', local story saved whole; the
\* generation that starts here overtakes one the run has in flight for the segment
regenerateSegment_mark ==
  /\ rpc = "mark"
  /\ rstory' = [rstory EXCEPT !.segments[rseg].status = "generating"]
  /\ saveStoryData(rstory')
  /\ rpc' = "generating"
  /\ superseded' = IF pc = "v1_generate" /\ rseg = i + 1 THEN "run" ELSE superseded
  /\ UNCHANGED <<rseg, regens, notRegen>>

\* lines 133-141: the result written on the segment; a success clears the error
RegenerateOutcome(seg, ok) ==
  IF ok THEN [seg EXCEPT !.videoPath = TRUE, !.status = "completed", !.error = FALSE]
        ELSE [seg EXCEPT !.status = "failed", !.error = TRUE]

\* lines 126-147: the generation returns, the local story is saved whole
regenerateSegment_finish ==
  /\ rpc = "generating"
  /\ saveStoryData([rstory EXCEPT !.segments[rseg] = RegenerateOutcome(@, rseg \notin failSet)])
  /\ rpc' = "idle"
  /\ rstory' = NoStory
  /\ rseg' = 0
  /\ superseded' = IF superseded = "regen" THEN "none" ELSE superseded
  /\ UNCHANGED <<regens, notRegen>>

\* ------------------------------------- specification: per-segment variant
InitV1 ==
  /\ InitStory
  /\ enableReferenceImages = FALSE
  /\ media = {}
  /\ IdleParts
  /\ IdleExtras

NextV1 ==
  \/ processStoryV1_load
  \/ UpdLoad
  \/ UpdSave
  \/ processStoryV1_analyze
  \/ processStoryV1_loop
  \/ processStoryV1_mark
  \/ processStoryV1_generate
  \/ \E s \in 1..MaxSeg : regenerateSegment_load(s)
  \/ regenerateSegment_mark
  \/ regenerateSegment_finish

SpecV1 == InitV1 /\ [][NextV1]_vars

\* ------------------------------------- stories.ts: DELETE /:id
\* the artifact files written for a story: per section the script (fileStorage
\* 217-222), the background image (backgroundImageService 86), the narration script
\* (audioService 29), the video copied into the section folder (videoService 50)
\* and the video the generator downloaded (part_007 96-106, called with storyName
\* as its storyId at videoService 41); per story the reference image
Artifacts ==
  ({"script", "background", "narration", "video", "veoVideo"} \X (1..MaxSeg))
    \cup {<<"reference", 0>>}

\* the directory an artifact lies in
Directory(a) ==
  CASE a[1] \in {"script", "background", "narration", "video"} -> "data/storyName"
    [] a[1] = "veoVideo" -> "videos/storyName"
    [] a[1] = "reference" -> "images/storyId"

\* stories.ts line 92: the route calls deleteStory(id), the storyName is undefined
StoryNamePassed == FALSE

\* fileStorage.deleteStory lines 107-119: the directories removed with fs.rm
RemovedDirectories(storyName) ==
  {"videos/storyId", "images/storyId"}
    \cup (IF storyName THEN {"data/storyName"} ELSE {})

\* stories.ts lines 89-97, fileStorage.deleteStory: the story file is unlinked and
\* the directories are removed; no running operation is told
deleteStory ==
  /\ deletes < MaxDeletes
  /\ deletes' = deletes + 1
  /\ store' = NoStory
  /\ media' = {a \in media : Directory(a) \notin RemovedDirectories(StoryNamePassed)}
  /\ UNCHANGED <<seen, runVars, envVars, regenVars, genVars, retryVars, pollVars,
                 statusVars, extraVars, superseded>>

\* the per-segment variant with a delete request arriving at any time
NextDelete ==
  \/ processStoryV1_load
  \/ UpdLoad
  \/ UpdSave
  \/ processStoryV1_analyze
  \/ processStoryV1_loop
  \/ processStoryV1_mark
  \/ processStoryV1_generate
  \/ \E s \in 1..MaxSeg : regenerateSegment_load(s)
  \/ regenerateSegment_mark
  \/ regenerateSegment_finish
  \/ deleteStory

SpecDelete == InitV1 /\ [][NextDelete]_vars

\* a story that was processed, with any of its artifacts on disk, and nothing running
InitCascade ==
  /\ store = [UploadedStory EXCEPT !.status = "completed", !.progress = 100,
                                   !.styleInfo = "extracted"]
  /\ seen = {}
  /\ story = NoStory /\ pc = "idle" /\ ret = "idle" /\ upd = NoUpdates /\ u = NoStory
  /\ sections = 0 /\ i = 0 /\ inflight = {} /\ runs = 0
  /\ failSet = {} /\ enableReferenceImages = FALSE
  /\ media \in SUBSET Artifacts
  /\ IdleParts
  /\ IdleExtras

\* the delete request, and status requests to read the record before and after it
NextCascade ==
  \/ deleteStory
  \/ getStatus_load
  \/ getStatus_respond

SpecCascade == InitCascade /\ [][NextCascade]_vars

\* ------------------------------------- GeminiVeoService: generateVideoWithRetry
\* how one underlying generateVideo call ends: it succeeds, or an exception is
\* thrown by the start call (network, invalid input, quota), by polling (network),
\* by the poll limit (timeout), by the empty response (novideo) or by the download
Outcomes == {"ok", "network", "invalid", "quota", "timeout", "novideo", "download", "nomessage"}

\* error.message of the exception; "nomessage" is an Error with an empty message
ErrorMessage(o) == IF o = "nomessage" THEN "" ELSE o

\* generateVideo, lines 24 and 116: the try block spans every step of the call,
\* so no exception of any step leaves generateVideo
EscapesCatch(o) == FALSE

\* generateVideo, lines 19-123: the result of a call that ends as o
generateVideo(o) ==
  IF o = "ok" THEN [success |-> TRUE, error |-> "", attempts |-> 0, thrown |-> FALSE]
              ELSE [success |-> FALSE, error |-> ErrorMessage(o), attempts |-> 0,
                    thrown |-> EscapesCatch(o)]

\* the outcome of the n-th underlying call
OutcomeOf(n) == IF n \in DOMAIN script THEN script[n] ELSE "network"

\* the loop bound off by one: `attempt < maxRetries`
RetryContinue_strict(a, m) == a < m

\* line 136: `attempt <= maxRetries`
RetryContinue(a, m) == a <= m

\* the first error kept instead of the last one
NextLastError_first(prev, res) ==
  IF prev # "" THEN prev ELSE IF res.error = "" THEN "Unknown error" ELSE res.error

\* line 145: lastError = result.error || 'Unknown error'
NextLastError(prev, res) == IF res.error = "" THEN "Unknown error" ELSE res.error

\* line 147: `attempt < maxRetries`, wait before the next attempt
WaitsBeforeNext(a, m) == a < m

\* lines 154-157: `Failed after ${maxRetries} attempts. Last error: ${lastError}`
FailedAfter(m, last) == [success |-> FALSE, error |-> last, attempts |-> m, thrown |-> FALSE]

notPoll == <<storeVars, runVars, envVars, regenVars, genVars, statusVars, deletes, media, extraVars, superseded>>

notRetry == <<notPoll, pollVars>>

\* lines 136-151: one iteration of the loop; generateVideoWithRetry has no try
\* block of its own, so an exception of generateVideo would leave it too
generateVideoWithRetry_attempt ==
  /\ rtpc = "loop"
  /\ RetryContinue(attempt, maxRetries)
  /\ ncalls' = ncalls + 1
  /\ LET res == generateVideo(OutcomeOf(ncalls + 1)) IN
       IF res.thrown
         THEN /\ rtpc' = "thrown"
              /\ UNCHANGED <<lastError, attempt, result>>
         ELSE IF res.success
           THEN /\ result' = res
                /\ rtpc' = "returned"
                /\ UNCHANGED <<lastError, attempt>>
           ELSE /\ lastError' = NextLastError(lastError, res)
                /\ IF WaitsBeforeNext(attempt, maxRetries)
                     THEN rtpc' = "wait" /\ UNCHANGED attempt
                     ELSE rtpc' = "loop" /\ attempt' = attempt + 1
                /\ UNCHANGED result
  /\ UNCHANGED <<maxRetries, script, waits, notRetry>>

\* a constant delay between the attempts
waitTime_constant(a) == 5000

\* line 148: const waitTime = attempt * 5000
waitTime(a) == a * 5000

\* lines 148-150: the backoff sleep of waitTime ms, then attempt++
generateVideoWithRetry_wait ==
  /\ rtpc = "wait"
  /\ waits' = Append(waits, waitTime(attempt))
  /\ attempt' = attempt + 1
  /\ rtpc' = "loop"
  /\ UNCHANGED <<maxRetries, script, ncalls, lastError, result, notRetry>>

\* lines 154-157: the loop is over without a success
generateVideoWithRetry_exhausted ==
  /\ rtpc = "loop"
  /\ ~RetryContinue(attempt, maxRetries)
  /\ result' = FailedAfter(maxRetries, lastError)
  /\ rtpc' = "returned"
  /\ UNCHANGED <<maxRetries, script, waits, attempt, ncalls, lastError, notRetry>>

\* the call generateVideoWithRetry(request, storyId, segmentId, maxRetries) entered
RetryStart ==
  /\ store = UploadedStory /\ seen = {}
  /\ story = NoStory /\ pc = "idle" /\ ret = "idle" /\ upd = NoUpdates /\ u = NoStory
  /\ sections = 0 /\ i = 0 /\ inflight = {} /\ runs = 0
  /\ failSet = {} /\ enableReferenceImages = FALSE
  /\ pollCount = 0 /\ opDone = FALSE /\ queries = 0 /\ operations = 0
  /\ qpc = "idle" /\ qstory = NoStory /\ response = NoResponse /\ requests = 0
  /\ deletes = 0 /\ media = {} /\ superseded = "none"
  /\ rpc = "idle" /\ rstory = NoStory /\ rseg = 0 /\ regens = 0
  /\ vpc = "idle" /\ vstory = NoStory /\ vsec = 0 /\ gencalls = 0
  /\ maxRetries \in 0..MaxRetriesBound
  /\ script \in [1..MaxRetriesBound -> Outcomes]
  /\ attempt = 1 /\ ncalls = 0 /\ lastError = "" /\ waits = <<>>
  /\ result = [success |-> FALSE, error |-> "", attempts |-> 0, thrown |-> FALSE]
  /\ rtpc = "loop"

InitRetry ==
  /\ RetryStart
  /\ IdleExtras

NextRetry ==
  \/ generateVideoWithRetry_attempt
  \/ generateVideoWithRetry_wait
  \/ generateVideoWithRetry_exhausted

SpecRetry == InitRetry /\ [][NextRetry]_vars

\* part_007 lines 195-209
MaxPromptLength == 2000
MaxDuration == 60

\* `request.duration &&`: undefined and 0 are both falsy
Truthy(req) == req.durationGiven /\ req.duration # 0

validateRequest(req) ==
  IF req.prompt.length = 0 \/ req.prompt.trimmed = 0
  THEN [valid |-> FALSE, error |-> "Prompt is required"]
  ELSE IF req.prompt.length > MaxPromptLength
  THEN [valid |-> FALSE, error |-> "Prompt must be less than 2000 characters"]
  ELSE IF Truthy(req) /\ (req.duration < 1 \/ req.duration > MaxDuration)
  THEN [valid |-> FALSE, error |-> "Duration must be between 1 and 60 seconds"]
  ELSE [valid |-> TRUE, error |-> ""]

\* requests around the limits of validateRequest; a duration that is not given
\* is kept as 0
Requests ==
  {req \in [prompt : [length : {0, 1, 2, MaxPromptLength, MaxPromptLength + 1},
                       trimmed : {0, 1}],
             durationGiven : BOOLEAN,
             duration : {0 - 1, 0, 1, 8, MaxDuration, MaxDuration + 1}] :
     /\ req.prompt.trimmed <= req.prompt.length
     /\ ~req.durationGiven => req.duration = 0}

\* generateVideoWithRetry called with any such request
InitValidate ==
  /\ RetryStart
  /\ IdleStream /\ IdleAnalysis /\ IdleDir /\ IdleLater
  /\ request \in Requests /\ validation = NoResponse

SpecValidate == InitValidate /\ [][NextRetry]_vars

\* a caller asks validateRequest about a request
validate ==
  /\ validation' = validateRequest(request)
  /\ UNCHANGED <<storeVars, runVars, envVars, regenVars, genVars, retryVars, pollVars,
                 statusVars, deletes, media, streamVars, request, wordCount, dirVars,
                 laterVars, superseded>>

InitCheckRequest ==
  /\ IdlePipeline
  /\ IdleStream /\ IdleAnalysis /\ IdleDir /\ IdleLater
  /\ request \in Requests /\ validation = NoResponse

SpecCheckRequest == InitCheckRequest /\ [][validate]_vars

\* ------------------------------------- GeminiVeoService: the polling of generateVideo
\* line 68: const maxPolls = 60
maxPolls == 60

\* the poll limit checked one iteration late
PollLimitReached_late(p) == p > maxPolls + 1

\* line 73: `pollCount > maxPolls`
PollLimitReached(p) == p > maxPolls

\* line 62: the outcomes with which the generateVideos call itself throws
StartFails(o) == o \in {"network", "invalid", "quota", "nomessage"}

\* operation.done as a status answer may give it: an operation that times out never is
DoneAnswers(o) == IF o = "timeout" THEN {FALSE} ELSE BOOLEAN

\* lines 141-151 of generateVideoWithRetry: what it does with the result of a call
HandleResult(res) ==
  IF res.success
    THEN /\ result' = res
         /\ rtpc' = "returned"
         /\ UNCHANGED <<lastError, attempt>>
    ELSE /\ lastError' = NextLastError(lastError, res)
         /\ IF WaitsBeforeNext(attempt, maxRetries)
              THEN rtpc' = "wait" /\ UNCHANGED attempt
              ELSE rtpc' = "loop" /\ attempt' = attempt + 1
         /\ UNCHANGED result

\* lines 136-139 and 61-68: an attempt calls generateVideo, which starts a new
\* operation with generateVideos (or fails there) and sets pollCount to 0
generateVideo_start ==
  /\ rtpc = "loop"
  /\ RetryContinue(attempt, maxRetries)
  /\ ncalls' = ncalls + 1
  /\ LET o == OutcomeOf(ncalls + 1) IN
       IF StartFails(o)
         THEN /\ HandleResult(generateVideo(o))
              /\ UNCHANGED pollVars
         ELSE /\ operations' = operations + 1
              /\ queries' = 0
              /\ pollCount' = 0
              /\ opDone' \in DoneAnswers(o)
              /\ rtpc' = "polling"
              /\ UNCHANGED <<lastError, attempt, result>>
  /\ UNCHANGED <<maxRetries, script, waits, notPoll>>

\* lines 70-84: one iteration of `while (!operation.done)`: pollCount++, the limit
\* check (its throw is caught at line 116 and becomes a failure result), the wait
\* and the status query of the operation
generateVideo_poll ==
  /\ rtpc = "polling"
  /\ ~opDone
  /\ pollCount' = pollCount + 1
  /\ IF PollLimitReached(pollCount')
       THEN /\ HandleResult(generateVideo("timeout"))
            /\ UNCHANGED <<opDone, queries>>
       ELSE /\ queries' = queries + 1
            /\ opDone' \in DoneAnswers(OutcomeOf(ncalls))
            /\ UNCHANGED <<lastError, attempt, result, rtpc>>
  /\ UNCHANGED <<maxRetries, script, waits, ncalls, operations, notPoll>>

\* lines 86-122: the operation is done; the video is there and downloaded, or
\* the call ends as a failure result
generateVideo_done ==
  /\ rtpc = "polling"
  /\ opDone
  /\ HandleResult(generateVideo(OutcomeOf(ncalls)))
  /\ UNCHANGED <<maxRetries, script, waits, ncalls, pollVars, notPoll>>

\* the ways a call can end that the polling specification tries
PollOutcomes == {"ok", "timeout", "novideo", "quota"}

InitPoll ==
  /\ store = UploadedStory /\ seen = {}
  /\ story = NoStory /\ pc = "idle" /\ ret = "idle" /\ upd = NoUpdates /\ u = NoStory
  /\ sections = 0 /\ i = 0 /\ inflight = {} /\ runs = 0
  /\ failSet = {} /\ enableReferenceImages = FALSE
  /\ rpc = "idle" /\ rstory = NoStory /\ rseg = 0 /\ regens = 0
  /\ vpc = "idle" /\ vstory = NoStory /\ vsec = 0 /\ gencalls = 0
  /\ pollCount = 0 /\ opDone = FALSE /\ queries = 0 /\ operations = 0
  /\ qpc = "idle" /\ qstory = NoStory /\ response = NoResponse /\ requests = 0
  /\ deletes = 0 /\ media = {} /\ superseded = "none"
  /\ IdleExtras
  /\ maxRetries \in 0..MaxRetriesBound
  /\ script \in [1..MaxRetriesBound -> PollOutcomes]
  /\ attempt = 1 /\ ncalls = 0 /\ lastError = "" /\ waits = <<>>
  /\ result = [success |-> FALSE, error |-> "", attempts |-> 0, thrown |-> FALSE]
  /\ rtpc = "loop"

NextPoll ==
  \/ generateVideo_start
  \/ generateVideo_poll
  \/ generateVideo_done
  \/ generateVideoWithRetry_wait
  \/ generateVideoWithRetry_exhausted

\* every call the loop awaits (start, status query, download, sleep) returns or fails
SpecPoll == InitPoll /\ [][NextPoll]_vars /\ WF_vars(NextPoll)

\* =================================================================== claims
\* a step of the processStory run (every one of them moves pc or settles a task)
RunStep == pc' # pc \/ inflight' # inflight

InRun == pc \notin {"idle", "done"}

\* the first save of a run is the one of its first updateStoryStatus
FirstSaveOfRun == pc = "upd_save" /\ ret \in {"style", "v1_analyze"}

\* a save of the run that follows an earlier save of the same run
LaterSaveOfRun == InRun /\ RunStep /\ ~FirstSaveOfRun /\ store' # store

\* C1: segment isolation: when generation always fails for exactly one segment k
\* of the N the analysis returned and succeeds for the others, the run ends with the
\* story completed, segment k failed and every other segment completed.
C1_SegmentIsolation ==
  \A k \in 1..MaxSeg :
    (pc = "done" /\ runs = 1 /\ gencalls = 0 /\ failSet = {k} /\ k <= sections)
      => /\ store.status = "completed"
         /\ Len(store.segments) = sections
         /\ \A s \in 1..Len(store.segments) :
              store.segments[s].status = IF s = k THEN "failed" ELSE "completed"

\* C2: during one processStory run the progress written by successive saves never
\* decreases, up to the save that sets the status failed (completed writes 100).
C2_ProgressMonotone ==
  [][LaterSaveOfRun => (store'.progress >= store.progress \/ store'.status = "failed")]_vars

StageRank(status) ==
  CASE status = "uploaded" -> 0
    [] status = "extracting_style" -> 1
    [] status = "generating_reference_image" -> 2
    [] status = "generating_sections" -> 3
    [] status = "generating_audio" -> 4
    [] status = "completed" -> 5
    [] OTHER -> -1

\* C3: the persisted status only moves forward through uploaded, extracting_style,
\* generating_reference_image, generating_sections, generating media, completed;
\* no save of a run puts it back to an earlier stage, the only other move is to failed.
C3_StageForward ==
  [][LaterSaveOfRun =>
       (store'.status = "failed" \/ StageRank(store'.status) >= StageRank(store.status))]_vars

\* the run in progress was started on a record whose status was completed
RerunOfCompleted == InRun /\ HasContent(story) /\ story.status = "completed"

\* the positions of processStory where its next step is an analysis or generation call
ExternalCallAt == {"style", "reference", "analyze", "sections", "awaiting", "audio"}

\* C4: idempotence: a processStory call on a story whose persisted status is
\* completed makes no analysis or generation call and leaves the record as it was.
C4_Idempotent ==
  [][(RerunOfCompleted /\ RunStep) => (store' = store /\ pc \notin ExternalCallAt)]_vars

\* the position of the first successful underlying call (past the end when none)
FirstSuccess ==
  IF \E n \in DOMAIN script : script[n] = "ok"
    THEN CHOOSE n \in DOMAIN script :
           script[n] = "ok" /\ \A m \in 1..(n - 1) : script[m] # "ok"
    ELSE Len(script) + 1

Min(a, b) == IF a <= b THEN a ELSE b

\* C5: retry bound: for maxRetries >= 1, generateVideoWithRetry makes exactly
\* min(k, maxRetries) underlying calls, k the position of the first successful call,
\* and returns success exactly when k <= maxRetries.
C5_RetryBound ==
  (rtpc = "returned" /\ maxRetries >= 1)
    => /\ ncalls = Min(FirstSuccess, maxRetries)
       /\ result.success <=> (FirstSuccess <= maxRetries)

\* maxRetries - 1 failures, then a success at the last allowed attempt
C5_Witness ==
  /\ rtpc = "returned" /\ maxRetries = 3 /\ FirstSuccess = 3
  /\ result.success /\ ncalls = 3

\* the error of the last underlying call, as line 145 reads it
LastAttemptError ==
  IF ErrorMessage(OutcomeOf(ncalls)) = "" THEN "Unknown error"
                                          ELSE ErrorMessage(OutcomeOf(ncalls))

\* C6: generateVideoWithRetry never throws: for every maxRetries and every way the
\* underlying calls fail it goes on until it returns a result, and the failure it
\* returns when every attempt failed carries the error of the last attempt.
C6_NeverThrows ==
  /\ rtpc # "thrown"
  /\ rtpc = "returned" \/ ENABLED NextRetry
  /\ (rtpc = "returned" /\ ~result.success /\ ncalls >= 1)
       => (result.error = LastAttemptError /\ result.attempts = maxRetries)

\* three failed attempts with different errors, the last one a timeout
C6_Witness ==
  /\ rtpc = "returned" /\ ~result.success /\ ncalls = 3
  /\ script[1] = "network" /\ script[2] = "download" /\ script[3] = "timeout"
  /\ result.error = "timeout"

\* the failures the retry policy is to class as permanent: retrying cannot help
Permanent == {"invalid", "quota"}

\* C7: a permanent failure (invalid input, quota exhausted) short-circuits the
\* retry policy: no underlying call is made after the first such failure.
C7_PermanentShortCircuit ==
  \A n \in 1..ncalls : (n < ncalls) => OutcomeOf(n) \notin Permanent

\* segment k of the persisted record goes from status a to status b in this step
SegmentMoveAllowed(k, a, b) ==
  \/ a = b
  \/ a = "pending" /\ b = "generating"
  \/ a = "generating" /\ b \in {"completed", "failed"}
  \/ /\ a \in {"completed", "failed"} /\ b = "generating"
     /\ rpc = "mark" /\ rpc' = "generating" /\ rseg = k

\* C8: each segment's persisted status changes only along pending -> generating ->
\* completed or failed; completed or failed goes back to generating only by an
\* explicit regenerate call, and a processStory re-run never changes the status of a
\* segment that is completed or failed.
C8_SegmentTransitions ==
  [][\A k \in 1..MaxSeg :
       (store.present /\ store'.present /\ k <= Len(store.segments))
         => /\ k <= Len(store'.segments)
            /\ SegmentMoveAllowed(k, store.segments[k].status, store'.segments[k].status)]_vars

\* C9: a regenerate call for a segment whose persisted status is generating is
\* rejected, so it never gets past its load, and two generations of the same
\* segment are never in flight together.
C9_RegenerateRejected ==
  /\ rpc = "mark" => rstory.segments[rseg].status # "generating"
  /\ ~(pc = "v1_generate" /\ rpc = "generating" /\ rseg = i + 1)

\* C10: progress is a function of the status and of the number of completed or
\* failed segments out of the total: two persisted records that agree on the three
\* carry the same progress.
C10_ProgressDerived ==
  \A a \in seen : \A b \in seen :
    (a[1] = b[1] /\ a[2] = b[2] /\ a[3] = b[3]) => a[4] = b[4]

\* C11: in every persisted record whose status is completed, progress is 100 and
\* every segment is completed or failed, none pending or generating.
C11_CompletedAllDone ==
  (store.present /\ store.status = "completed")
    => /\ store.progress = 100
       /\ \A k \in 1..Len(store.segments) : IsDone(store.segments[k])

\* the style-extraction call of the (first) run failed: the style is the fallback
StyleCallFailed == story.present /\ story.styleInfo = "default"

\* the first run is in its catch block and no analysis result was ever returned
AnalysisFailed == upd.status = "failed" /\ HasContent(story) /\ sections = 0

\* the step with which a processStory run ends
RunEnds == pc # "done" /\ pc' = "done"

\* C12: pipeline-fatal failure: when the style-extraction call or the segmentation
\* call fails, the run ends with the story persisted as failed with its error set,
\* and no media generation is started in that run.
C12_PipelineFatal ==
  [][(RunEnds /\ runs = 1 /\ (StyleCallFailed \/ AnalysisFailed))
       => (store'.status = "failed" /\ store'.error /\ sections = 0)]_vars

\* record b is record a but for its status, progress and error
SameButStatus(a, b) ==
  b = [a EXCEPT !.status = b.status, !.progress = b.progress, !.error = b.error]

\* C13: when a processStory run ends in failed, everything persisted before the
\* failure (style, segment list, segment statuses, artifact paths) is unchanged in
\* the failed record; only status, progress and error change.
C13_FailurePreserves ==
  [][(RunEnds /\ upd.status = "failed" /\ store.present)
       => (store'.present /\ SameButStatus(store, store'))]_vars

\* C14: per-segment generation calls of a run are issued one at a time in ascending
\* id order: no two are in flight together, and a call is in flight only when every
\* lower-id segment is already in the persisted record.
C14_SequentialGeneration ==
  /\ Cardinality(inflight) <= 1
  /\ \A k \in inflight : \A j \in 1..(k - 1) :
       store.present /\ j <= Len(store.sections)

\* the error of an entry is set exactly when its status is failed
ErrorIffFailed(list) ==
  \A k \in 1..Len(list) : list[k].error <=> (list[k].status = "failed")

\* C15: in every persisted record a segment carries an error exactly when its
\* status is failed: set when generation fails, absent after a successful
\* generation or regeneration.
C15_ErrorIffFailed ==
  store.present => (ErrorIffFailed(store.sections) /\ ErrorIffFailed(store.segments))

\* C16: in every persisted record the story-level error is present only when the
\* status is failed; a record with any other status, after any sequence of runs,
\* has no error.
C16_ErrorOnlyWhenFailed ==
  (store.present /\ store.error) => store.status = "failed"

\* a step of the status request handler
StatusStep == qpc' # qpc

Terminal == {"completed", "failed"}

PollTimeout == rtpc = "polling" /\ ~opDone /\ rtpc' # "polling"

\* C19: the polling loop of generateVideo always terminates: it queries one
\* operation's status at most 60 times; when the operation is still not done the
\* call gives back a timeout failure result, and generateVideoWithRetry treats it as
\* retryable: the next attempt starts a new operation, the old one is never queried
\* again.
C19_PollingTerminates ==
  /\ [](queries <= 60 /\ pollCount <= 61)
  /\ <>(rtpc = "returned")
  /\ [][PollTimeout =>
         /\ queries = 60 /\ lastError' = "timeout" /\ ~result'.success
         /\ rtpc' = IF attempt < maxRetries THEN "wait" ELSE "loop"]_vars
  /\ [][queries' # queries =>
         \/ rtpc = "polling" /\ queries' = queries + 1
         \/ rtpc = "loop" /\ operations' = operations + 1 /\ queries' = 0]_vars

\* the first operation timed out after 60 queries, the retry started a second
\* operation and that one succeeded
C19_Witness ==
  /\ rtpc = "returned" /\ result.success /\ lastError = "timeout"
  /\ ncalls = 2 /\ operations = 2 /\ script[1] = "timeout"

\* the result of the generation the run holds for segment i + 1 arrives
RunResultArrives == pc = "v1_generate" /\ pc' = "v1_loop"

\* the result of the generation regenerateSegment holds for segment rseg arrives
RegenResultArrives == rpc = "generating" /\ rpc' = "idle"

\* this step leaves the persisted status and video path of segment k as they were
SegmentUntouched(k) ==
  (store.present /\ k <= Len(store.segments))
    => /\ store'.present /\ k <= Len(store'.segments)
       /\ store'.segments[k].status = store.segments[k].status
       /\ store'.segments[k].videoPath = store.segments[k].videoPath

\* C20: when a segment is regenerated, or its story is deleted, while an earlier
\* generation for that segment is in flight, the result of the earlier generation
\* is discarded when it arrives: it is not recorded as the segment's status or video
\* path, and a deleted story's record is not written again.
C20_StaleResultDiscarded ==
  [][/\ (RunResultArrives /\ superseded = "run") => SegmentUntouched(i + 1)
     /\ (RegenResultArrives /\ superseded = "regen") => SegmentUntouched(rseg)
     /\ ((RunResultArrives \/ RegenResultArrives) /\ deletes > 0 /\ ~store.present)
          => ~store'.present]_vars

\* C21: delete is cascading: after the delete request for a story has completed,
\* the story's record is absent and no artifact written for the story (script,
\* background image, audio, video, reference image) remains on disk.
C21_DeleteCascades ==
  deletes > 0 => (~store.present /\ media = {})

\* C22: only the upload handler creates a story record: no step of processStory,
\* regenerateSegment or a generation makes a record exist for a story whose record
\* is absent from the store, a record deleted while the operation ran included.
C22_OnlyUploadCreates ==
  [][~store.present => ~store'.present]_vars

\* C23: range read: for a stored video of size S and a Range header bytes=a-b with
\* 0 <= a <= b < S the answer is 206 with Content-Range a-b/S and exactly b-a+1
\* bytes; with b omitted it serves bytes a to S-1; without a Range header the
\* answer is 200 with all S bytes.
C23_RangeRead ==
  (videoExists /\ streamed # NoResponse) =>
    /\ \A a \in 0..(fileSize - 1) : \A b \in a..(fileSize - 1) :
         range = RangeHeader(a, b) =>
           streamed = Answer(206, <<a, b, fileSize>>, b - a + 1, b - a + 1)
    /\ \A a \in 0..(fileSize - 1) :
         range = OpenRange(a) =>
           streamed = Answer(206, <<a, fileSize - 1, fileSize>>, fileSize - a, fileSize - a)
    /\ range = NoRange => streamed = Answer(200, <<>>, fileSize, fileSize)

C23_Witness ==
  /\ videoExists /\ fileSize = 12
  /\ range = RangeHeader(2, 11)
  /\ streamed.code = 206 /\ streamed.sent = 10

\* C24: validation before dispatch: for a request whose prompt is over the maximum
\* length or whose duration is non-positive or over the maximum, no remote
\* generation call is issued and the retry policy does not retry it.
C24_ValidationBeforeDispatch ==
  (\/ request.prompt.length > MaxPromptLength
   \/ request.durationGiven /\ request.duration <= 0
   \/ request.durationGiven /\ request.duration > MaxDuration) => ncalls = 0

\* a step in which the reference image or the audio stage fails: the stage ends
\* and nothing was saved
OptionalStageFails == pc \in {"reference", "audio"} /\ pc' # pc /\ store' = store

\* C25: optional stages are not fatal: when the generation of the reference image
\* or the audio stage fails, the run is not failed but goes on to the next stage
\* (generating_sections after the reference image, completed after the audio);
\* and when reference images are disabled the status generating_reference_image
\* is never persisted.
C25_OptionalNotFatal ==
  /\ [][OptionalStageFails =>
          /\ upd'.status # "failed"
          /\ pc = "reference" => (upd'.status = "generating_sections" /\ ret' = "analyze")
          /\ pc = "audio" => (upd'.status = "completed" /\ ret' = "done")]_vars
  /\ [](~enableReferenceImages =>
          \A k \in seen : k[1] # "generating_reference_image")

\* a run with reference images enabled completed without a reference image
C25_Witness ==
  /\ enableReferenceImages /\ pc = "done"
  /\ store.status = "completed" /\ ~store.referenceImage

\* the step of processStory that persists the list the segmentation returned
SegmentationSave == pc = "v1_analyze" /\ store' # store

\* C26: after segmentation the persisted segment ids are exactly 1..N in list
\* order, and no later operation (generation, regeneration, a further save)
\* changes a segment's id, reorders the list or removes a segment.
C26_SegmentIdsStable ==
  /\ [](store.present => \A k \in DOMAIN store.segments : store.segments[k].id = k)
  /\ [][(store.present /\ store'.present /\ ~SegmentationSave) =>
          /\ Len(store'.segments) >= Len(store.segments)
          /\ \A k \in DOMAIN store.segments : store'.segments[k].id = store.segments[k].id]_vars

\* C27: segmentation yields a bounded segment count: the number of segments
\* persisted after the segmentation stage lies within [minSegments, maxSegments]
\* and equals calculateSegmentCount of the text (4 for a 500-word story),
\* whatever list the text-analysis model answers.
C27_SegmentCountBounded ==
  (store.status = "generating") =>
    /\ Len(store.segments) >= minSegments
    /\ Len(store.segments) <= maxSegments
    /\ Len(store.segments) = calculateSegmentCount(wordCount)

\* C28: resumption: a processStory call on a story whose persisted record is already
\* past a stage does not run that stage again: the style extraction is not run for
\* a record that was loaded with its style information, nor the segmentation for a
\* record that was loaded with its segment list.
C28_Resumption ==
  /\ pc = "style" => story.styleInfo = "none"
  /\ pc \in {"analyze", "sections", "awaiting"} => story.segments = <<>>

\* the step with which regenerateSegment persists the start of its generation, for
\* a segment that was not generating when the call loaded it
RegenerateStarts ==
  rpc = "mark" /\ rpc' = "generating" /\ rstory.segments[rseg].status # "generating"

\* a save of regenerateSegment
RegenerateSaves == rpc \in {"mark", "generating"} /\ rpc' # rpc /\ store.present

\* C29: a regenerate call on a segment that is not generating sets that segment's
\* status to generating and clears its error before the generation starts, and
\* its saves leave every other segment and the story-level status and progress
\* unchanged.
C29_RegenerateFrame ==
  /\ [][RegenerateStarts =>
          /\ store'.segments[rseg].status = "generating"
          /\ ~store'.segments[rseg].error]_vars
  /\ [][RegenerateSaves =>
          /\ store'.status = store.status /\ store'.progress = store.progress
          /\ Len(store'.segments) = Len(store.segments)
          /\ \A k \in DOMAIN store.segments :
               k # rseg => store'.segments[k] = store.segments[k]]_vars

\* a save of the story has completed (a torn first version is an upload under way)
Saved(id) == files[id].present /\ (~files[id].torn \/ files[id].data.version > 1)

\* the list holds every saved story, no other and none twice, newest first
ListsEveryStory(stories) ==
  /\ \A id \in StoryIds : Saved(id) => \E n \in DOMAIN stories : stories[n].id = id
  /\ \A n \in DOMAIN stories : files[stories[n].id].present
  /\ \A a, b \in DOMAIN stories : (a # b) => stories[a].id # stories[b].id
  /\ \A a, b \in DOMAIN stories : (a < b) => stories[a].uploadedAt >= stories[b].uploadedAt

\* the load of a saved story returns its record, the one last written when no
\* write is under way; the load of an id without a file returns null
LoadsAsSaved(l) ==
  /\ Saved(l.of) => (l.result.kind = "story" /\ l.result.data.id = l.of)
  /\ (Saved(l.of) /\ ~files[l.of].torn) => l.result.data = files[l.of].data
  /\ ~files[l.of].present => l.result.kind = "null"

\* C30: listStories returns every stored story exactly once, ordered by upload time
\* from newest to oldest; loadStoryData returns a saved record exactly as last
\* saved, and absent for an id with no record.
C30_ListAndLoad ==
  /\ [][listing' # listing => ListsEveryStory(listing'.stories)]_vars
  /\ [][loaded' # loaded => LoadsAsSaved(loaded')]_vars

MustReject(req) ==
  \/ req.prompt.length = 0 \/ req.prompt.trimmed = 0
  \/ req.prompt.length > MaxPromptLength
  \/ req.durationGiven /\ (req.duration <= 0 \/ req.duration > MaxDuration)

\* C32: validateRequest returns invalid for every request whose prompt is empty or
\* blank, whose prompt is longer than 2000 characters, or whose duration is given
\* and is non-positive or greater than 60, and valid for every other request.
C32_ValidateRequest ==
  validation # NoResponse => (validation.valid <=> ~MustReject(request))

\* C33: every story record created by upload holds text content whose length is
\* between 100 and 100000 characters; an upload whose content is outside these
\* bounds is answered with 400, creates no record and starts no processing.
C33_UploadBounds ==
  /\ (uploaded # NoResponse /\ uploaded.record) =>
       (TextLength(uploaded.text) >= 100 /\ TextLength(uploaded.text) <= 100000)
  /\ (uploaded # NoResponse /\ uploaded.code \notin {500}
        /\ (TextLength(trim(parsed)) < 100 \/ TextLength(trim(parsed)) > 100000)) =>
       (uploaded.code = 400 /\ ~uploaded.record /\ ~uploaded.processing)

\* the text has no CRLF, no tab, no run of two or more spaces, no run of three
\* or more newlines and no leading or trailing whitespace
NormalForm(t) ==
  /\ \A k \in DOMAIN t :
       /\ t[k].c # "tab"
       /\ t[k].c = "sp" => t[k].n < 2
       /\ t[k].c = "lf" => t[k].n < 3
       /\ (t[k].c = "cr" /\ k < Len(t)) => t[k + 1].c # "lf"
  /\ t # <<>> => (t[1].c \notin WhiteSpace /\ t[Len(t)].c \notin WhiteSpace)

\* C40: cleanContent is idempotent: cleanContent(cleanContent(t)) equals
\* cleanContent(t) for every text t, and the cleaned text is in normal form.
C40_CleanIdempotent ==
  /\ Len(cleaned) >= 1 => NormalForm(cleaned[1])
  /\ Len(cleaned) = 2 => cleaned[2] = cleaned[1]

\* section k of the story generateAllVideos loaded was completed with its video
CompletedAtStart(k) ==
  astory.sections[k].status = "completed" /\ astory.sections[k].videoPath

\* C34: generateAllVideos attempts each section at most once, in list order; a
\* section that is completed with a video path when the call starts is not
\* generated again, and the failure of one section does not stop the later
\* sections from being attempted.
C34_AllVideosOnce ==
  /\ \A a, b \in DOMAIN attempted : a < b => attempted[a] < attempted[b]
  /\ \A a \in DOMAIN attempted : ~CompletedAtStart(attempted[a])
  /\ apc = "done" =>
       \A k \in DOMAIN astory.sections :
         ~CompletedAtStart(k) => \E a \in DOMAIN attempted : attempted[a] = k

\* the first section failed and the second one was attempted and completed
C34_Witness ==
  /\ apc = "done" /\ attempted = <<1, 2>>
  /\ store.sections[1].status = "failed" /\ store.sections[2].status = "completed"

\* generateVideo saves the outcome of its section
VideoSaves == vpc = "generating" /\ vpc' = "idle"

\* generateAudio saves the path of its section
AudioSaves == upc = "generating" /\ upc' = "idle" /\ store' # store

\* the persisted results of section k stay what they are
ResultKept(k) ==
  /\ k \in DOMAIN store'.sections
  /\ store'.sections[k].status = store.sections[k].status
  /\ store'.sections[k].videoPath = store.sections[k].videoPath
  /\ store'.sections[k].audioPath = store.sections[k].audioPath

\* C35: when generateVideo or generateAudio calls for two different sections of
\* one story overlap and both succeed, the persisted record after both have
\* finished holds both results: the save of the call that finishes second keeps
\* the path and status the first one persisted for the other section.
C35_NoLostSectionUpdate ==
  [][/\ VideoSaves => \A k \in DOMAIN store.sections : k # vsec => ResultKept(k)
     /\ AudioSaves => \A k \in DOMAIN store.sections : k # usec => ResultKept(k)]_vars

\* a save by generateVideo, generateAudio or regenerateSegment of the record the
\* call loaded earlier
StaleSave == VideoSaves \/ AudioSaves \/ RegenerateSaves

\* C36: once a story's persisted status is completed with progress 100, no later
\* save by a regenerateSegment, generateVideo or generateAudio call that loaded
\* the record earlier writes an older status or a lower progress back.
C36_CompletedStable ==
  [][(store.status = "completed" /\ store.progress = 100 /\ StaleSave /\ store'.present)
       => (store'.status = "completed" /\ store'.progress = 100)]_vars

\* C37: two different stories, and two different sections of one story, never
\* resolve to the same script, image, audio or video path, and no story's media
\* directory is the data root itself.
C37_MediaNotShared ==
  /\ \A w1, w2 \in scripts : w1 # w2 => ScriptPathOf(w1) # ScriptPathOf(w2)
  /\ \A w \in scripts : getStoryDirectory(sanitizeStoryName(filenames[w.story])) # dataDir

\* C38: for every id, whenever the sections entry is completed with a video path,
\* the segments entry with the same id (the list the video stream and download
\* requests read) has the same status and video path.
C38_ListsAgree ==
  store.present =>
    \A k \in DOMAIN store.sections :
      (store.sections[k].status = "completed" /\ store.sections[k].videoPath)
        => /\ k \in DOMAIN store.segments
           /\ store.segments[k].status = "completed"
           /\ store.segments[k].videoPath

\* the index is within the list, and a drift-correction timer exists only while
\* playing, at most one, the one the ref holds
ViewerInvariant ==
  /\ currentIndex \in 0..(segmentCount - 1)
  /\ intervals # {} => isPlaying
  /\ Cardinality(intervals) <= 1
  /\ intervals = IF driftTimerRef = 0 THEN {} ELSE {driftTimerRef}

\* C39: in the storyboard viewer, after any sequence of next, previous,
\* thumbnail and play/pause actions on a non-empty segment list, the current
\* index stays within 0..length-1, every change of the current index sets
\* playing to false, and the drift-correction timer exists only while playing
\* (at most one at a time, none after pause or after a segment change).
C39_ViewerState ==
  /\ []ViewerInvariant
  /\ [][/\ currentIndex' # currentIndex => (~isPlaying' /\ intervals' = {})
        /\ (isPlaying /\ ~isPlaying') => intervals' = {}]_vars

\* on a later scene the viewer plays for the second time, its timer running
C39_Witness ==
  /\ currentIndex > 0 /\ isPlaying /\ intervals = {2} /\ timersCreated = 2

====
